---- MODULE Spec2Model ----
(***************************************************************************)
(* Model of the repository dashboard in src/app.py: the composite          *)
(* repository fetch, the three derived metrics, the campaign list kept in  *)
(* session state and mirrored to campaign_data.json, and the handlers of   *)
(* the Repo Search, Developer Search and Campaign tabs.                    *)
(*                                                                         *)
(* Conventions.  A Python str is a sequence of text chunks (so that split  *)
(* and join are computed); an API timestamp 'YYYY-MM-DDTHH:MM:SSZ' is a    *)
(* record [date, time] (day number, second of day) and a naive datetime is *)
(* a number of seconds; a float holding a quotient is the exact rational   *)
(* [num, den].                                                             *)
(***************************************************************************)
EXTENDS Integers, Sequences, FiniteSets, TLC

VARIABLES
    campaign_repos,   \* st.session_state.campaign_repos (list of dicts)
    campaign_file,    \* campaign_data.json: absent, or its JSON document
    last_action,      \* the handler that ran last
    repo_input,       \* text of the input box at the last Repo/Developer search
    add_to_campaign,  \* whether the 'Add to Campaign' button was the one pressed
    response,         \* HTTP response received by the last repository fetch
    fetched,          \* what get_repo_details_and_issues returned (or raised)
    outcome,          \* what the last handler put on the page (or the exception)
    m_op,             \* metric harness: the metric function applied
    m_items,          \* metric harness: its argument list
    m_other,          \* metric harness: a second list sharing the first ten entries
    m_now,            \* metric harness: the reading of datetime.now()
    m_result,         \* metric harness: result on m_items
    m_result_other    \* metric harness: result on m_other

app_vars == <<campaign_repos, campaign_file, last_action, repo_input,
              add_to_campaign, response, fetched, outcome>>
metric_vars == <<m_op, m_items, m_other, m_now, m_result, m_result_other>>
vars == <<app_vars, metric_vars>>

----------------------------------------------------------------------------
(* Bounds of the model *)

MaxCampaign == 2
MaxErrors == 2
MaxIssues == 12
MaxFormatIssues == 4
MaxTail == 2

(* Program constants *)

IssueSliceLimit == 10
WindowDays == 60
SecondsPerHour == 3600
DayThresholdHours == 24
HttpOk == 200

SecondsPerDay == 24 * SecondsPerHour

----------------------------------------------------------------------------
(* Generic helpers *)

BoundedSeq(S, n) == UNION { [1..k -> S] : k \in 0..n }

Take(s, n) == SubSeq(s, 1, IF Len(s) < n THEN Len(s) ELSE n)

(* Python values whose type varies at run time carry their type *)
PyNone == [py |-> "NoneType"]
PyStr(s) == [py |-> "str", v |-> s]
PyInt(n) == [py |-> "int", v |-> n]

(* str.split('/') on a str given as a sequence of chunks, "/" being the   *)
(* separator: the list of the runs between separators (possibly empty).  *)
RECURSIVE split(_)
split(s) ==
    IF s = <<>> THEN << <<>> >>
    ELSE LET rest == split(Tail(s))
         IN  IF Head(s) = "/" THEN << <<>> >> \o rest
             ELSE << <<Head(s)>> \o Head(rest) >> \o Tail(rest)

(* ', '.join(list of str): the items with ", " between them *)
RECURSIVE join(_)
join(items) ==
    IF items = <<>> THEN <<>>
    ELSE IF Len(items) = 1 THEN Head(items)
    ELSE Head(items) \o <<", ">> \o join(Tail(items))

(* datetime.strptime(ts, '%Y-%m-%dT%H:%M:%SZ'): a naive datetime, seconds *)
strptime(ts) == ts.date * SecondsPerDay + ts.time

(* datetime.strftime('%Y-%m-%d'): the calendar day of a naive datetime *)
strftime_date(dt) == <<"day", dt \div SecondsPerDay>>

(* timedelta(days=60) in seconds *)
timedelta_days(d) == d * SecondsPerDay

----------------------------------------------------------------------------
(* Fetcher *)

Null == [isnull |-> TRUE]

Returned(info, err) == [raised |-> FALSE, repo_info |-> info, error |-> err]
Raised(e) == [raised |-> TRUE, exc |-> e]
NotCalled == [raised |-> FALSE, called |-> FALSE]

TransportError(code) == [isnull |-> FALSE, kind |-> "TransportError", status_code |-> code]
ApiError(errs) == [isnull |-> FALSE, kind |-> "ApiError", errors |-> errs]

(* any(error['type'] == 'FORBIDDEN' for error in errors): scans in order,  *)
(* stops at the first FORBIDDEN entry, and raises KeyError on an entry     *)
(* without a 'type' key met before that.                                   *)
RECURSIVE any_forbidden(_)
any_forbidden(errors) ==
    IF errors = <<>> THEN "False"
    ELSE IF ~Head(errors).has_type THEN "KeyError"
    ELSE IF Head(errors).type = "FORBIDDEN" THEN "True"
    ELSE any_forbidden(Tail(errors))

(* the carve-out taken without blanking the collaborators field *)
clear_collaborators_skipped(body) == body

(* response_data['data']['repository']['collaborators'] = {'edges': []} *)
clear_collaborators(body) ==
    [body EXCEPT !.data.repository.collaborators = [isnull |-> FALSE, edges |-> <<>>]]

get_repo_details_and_issues(owner, repo, resp) ==
    IF resp.status_code # HttpOk
    THEN Returned(Null, TransportError(resp.status_code))
    ELSE LET response_data == resp.body IN
         IF response_data.has_errors
         THEN LET forbidden == any_forbidden(response_data.errors) IN
              IF forbidden = "KeyError" THEN Raised("KeyError")
              ELSE IF forbidden = "True"
              THEN IF response_data.data.isnull THEN Raised("TypeError")
                   ELSE IF response_data.data.repository.isnull THEN Raised("TypeError")
                   ELSE Returned(clear_collaborators(response_data), Null)
              ELSE Returned(Null, ApiError(response_data.errors))
         ELSE Returned(response_data, Null)

----------------------------------------------------------------------------
(* Metric deriver *)

Rat(n, d) == [num |-> n, den |-> d]

RECURSIVE resolution_loop(_, _, _)
resolution_loop(issues, total_resolution_time, resolved_issue_count) ==
    IF issues = <<>>
    THEN [total |-> total_resolution_time, count |-> resolved_issue_count]
    ELSE LET issue == Head(issues)
             created_at == strptime(issue.createdAt)
             closed_at == strptime(issue.closedAt)
             resolution_time == closed_at - created_at
         IN  resolution_loop(Tail(issues),
                             total_resolution_time + resolution_time,
                             resolved_issue_count + 1)

(* the loop run over the whole list instead of issues[:10] *)
issue_slice_all(issues) == issues

issue_slice(issues) == Take(issues, IssueSliceLimit)

calculate_average_resolution_time(issues) ==
    LET acc == resolution_loop(issue_slice(issues), 0, 0) IN
    IF acc.count = 0 THEN Rat(0, 1)
    ELSE Rat(acc.total, acc.count * SecondsPerHour)

(* the window test written with > instead of >= *)
in_window_strict(t, sixty_days_ago) == t > sixty_days_ago

in_window(t, sixty_days_ago) == t >= sixty_days_ago

RECURSIVE count_issues_resolved_last_60_days(_, _)
count_issues_resolved_last_60_days(issues, now) ==
    LET sixty_days_ago == now - timedelta_days(WindowDays) IN
    IF issues = <<>> THEN 0
    ELSE (IF in_window(strptime(Head(issues).closedAt), sixty_days_ago) THEN 1 ELSE 0)
         + count_issues_resolved_last_60_days(Tail(issues), now)

RECURSIVE count_commits_last_60_days(_, _)
count_commits_last_60_days(commits, now) ==
    LET sixty_days_ago == now - timedelta_days(WindowDays) IN
    IF commits = <<>> THEN 0
    ELSE (IF in_window(strptime(Head(commits).node.committedDate), sixty_days_ago) THEN 1 ELSE 0)
         + count_commits_last_60_days(Tail(commits), now)

(* f"{x:.2f}" of the quotient n/d (n >= 0, d > 0): hundredths, ties to even *)
format_2f(n, d) ==
    LET q == (n * 100) \div d
        r == (n * 100) % d
        h == IF 2 * r < d THEN q
             ELSE IF 2 * r > d THEN q + 1
             ELSE IF q % 2 = 0 THEN q ELSE q + 1
    IN  <<h \div 100, ".", (h % 100) \div 10, h % 10>>

(* the unit test written with >= instead of > *)
format_average_time_inclusive(average_time) ==
    IF average_time.num >= DayThresholdHours * average_time.den
    THEN format_2f(average_time.num, average_time.den * DayThresholdHours) \o <<" days">>
    ELSE format_2f(average_time.num, average_time.den) \o <<" hours">>

format_average_time(average_time) ==
    IF average_time.num > DayThresholdHours * average_time.den
    THEN format_2f(average_time.num, average_time.den * DayThresholdHours) \o <<" days">>
    ELSE format_2f(average_time.num, average_time.den) \o <<" hours">>

----------------------------------------------------------------------------
(* Campaign store *)

Absent == [exists |-> FALSE]

to_json(v) ==
    IF v.py = "str" THEN [json |-> "string", text |-> v.v]
    ELSE IF v.py = "int" THEN [json |-> "number", text |-> v.v]
    ELSE [json |-> "null"]

(* every stored value read back as text *)
from_json_as_text(j) ==
    IF j.json = "null" THEN PyNone ELSE PyStr(j.text)

from_json(j) ==
    IF j.json = "string" THEN PyStr(j.text)
    ELSE IF j.json = "number" THEN PyInt(j.text)
    ELSE PyNone

(* json.dump: a list of dicts becomes an array of objects *)
json_dump(campaign_data) ==
    [i \in 1..Len(campaign_data) |->
        [k \in DOMAIN campaign_data[i] |-> to_json(campaign_data[i][k])]]

(* json.load: the inverse reading *)
json_load(doc) ==
    [i \in 1..Len(doc) |-> [k \in DOMAIN doc[i] |-> from_json(doc[i][k])]]

(* the file written before the new entry is appended *)
save_campaign_before_append(campaign_data) ==
    [exists |-> TRUE,
     content |-> json_dump(SubSeq(campaign_data, 1, Len(campaign_data) - 1))]

save_campaign(campaign_data) == [exists |-> TRUE, content |-> json_dump(campaign_data)]

load_campaign(file) == IF file.exists THEN json_load(file.content) ELSE <<>>

----------------------------------------------------------------------------
(* Repo Search tab (tab1) *)

Shown(fields) == [kind |-> "result", shown |-> fields]
ShownError(msg) == [kind |-> "error", error |-> msg]
Unhandled(e) == [kind |-> "exception", exc |-> e]
NothingShown == [kind |-> "none"]

Message(k) == [isnull |-> FALSE, kind |-> k]

(* the append not conditioned on the button *)
add_requested_always(add) == TRUE

(* if add_to_campaign: *)
add_requested(add) == add

(* an append that skips a repository already in the campaign *)
append_entry_unless_present(campaign, entry) ==
    IF \E i \in 1..Len(campaign) :
           campaign[i].owner = entry.owner /\ campaign[i].repo_name = entry.repo_name
    THEN campaign
    ELSE Append(campaign, entry)

(* an insert at the front instead of an append *)
append_entry_front(campaign, entry) == <<entry>> \o campaign

(* campaign_repos.append({...}) *)
append_entry(campaign, entry) == Append(campaign, entry)

(* elif repo_info and repo_info.get('data') and repo_info['data'].get('repository') *)
has_repository(repo_info) ==
    /\ ~repo_info.isnull
    /\ ~repo_info.data.isnull
    /\ ~repo_info.data.repository.isnull

RECURSIVE node_names(_)
node_names(edges) ==
    IF edges = <<>> THEN <<>> ELSE <<Head(edges).node.name>> \o node_names(Tail(edges))

RECURSIVE nodes(_)
nodes(edges) ==
    IF edges = <<>> THEN <<>> ELSE <<Head(edges).node>> \o nodes(Tail(edges))

RECURSIVE logins(_)
logins(contributors) ==
    IF contributors = <<>> THEN <<>>
    ELSE <<Head(contributors).login>> \o logins(Tail(contributors))

RECURSIVE drop_hack(_)
drop_hack(languages) ==
    IF languages = <<>> THEN <<>>
    ELSE IF Head(languages) # <<"Hack">> THEN <<Head(languages)>> \o drop_hack(Tail(languages))
    ELSE drop_hack(Tail(languages))

campaign_entry(owner, repo, stargazers_count, fork_count, languages, average_time_formatted, latest_commit, contributors, issues_resolved, commits) ==
    [repo_name |-> PyStr(repo),
     owner |-> PyStr(owner),
     stars |-> PyInt(stargazers_count),
     forks |-> PyInt(fork_count),
     languages |-> PyStr(join(languages)),
     average_issue_resolution_time |-> PyStr(average_time_formatted),
     latest_commit_date |-> IF latest_commit.isnull THEN PyNone
                            ELSE PyStr(strftime_date(strptime(latest_commit.committedDate))),
     contributors |-> PyStr(join(logins(contributors))),
     issues_solved_last_60_days |-> PyInt(issues_resolved),
     commits_last_60_days |-> PyInt(commits)]

Step(out, campaign, saved) == [outcome |-> out, campaign |-> campaign, saved |-> saved]

(* lines 180-251: extraction, derivation, display and the optional append *)
show_repository(repository, owner, repo, add, now, campaign) ==
    LET stargazers_count == repository.stargazerCount
        fork_count == repository.forkCount
        languages == drop_hack(node_names(repository.languages.edges))
        issues == nodes(repository.issues.edges)
        average_time == calculate_average_resolution_time(issues)
        average_time_formatted == format_average_time(average_time)
    IN
    IF repository.defaultBranchRef.isnull THEN Step(Unhandled("TypeError"), campaign, FALSE)
    ELSE
    LET latest_commit_edge == repository.defaultBranchRef.target.history.edges
        latest_commit == IF latest_commit_edge # <<>>
                         THEN [isnull |-> FALSE,
                               committedDate |-> latest_commit_edge[1].node.committedDate]
                         ELSE Null
    IN
    IF repository.collaborators.isnull THEN Step(Unhandled("TypeError"), campaign, FALSE)
    ELSE
    LET contributors == nodes(repository.collaborators.edges)
        issues_resolved_last_60_days == count_issues_resolved_last_60_days(issues, now)
        commits_last_60_days == count_commits_last_60_days(latest_commit_edge, now)
        entry == campaign_entry(owner, repo, stargazers_count, fork_count, languages,
                                average_time_formatted, latest_commit, contributors,
                                issues_resolved_last_60_days, commits_last_60_days)
        page == [stars |-> stargazers_count,
                 forks |-> fork_count,
                 languages |-> join(languages),
                 average_time_formatted |-> average_time_formatted,
                 issues_resolved_last_60_days |-> issues_resolved_last_60_days,
                 commits_last_60_days |-> commits_last_60_days,
                 latest_commit |-> latest_commit,
                 contributors |-> logins(contributors),
                 added |-> add_requested(add)]
    IN
    IF add_requested(add)
    THEN Step(Shown(page), append_entry(campaign, entry), TRUE)
    ELSE Step(Shown(page), campaign, FALSE)

(* lines 170-257: the handler of 'Search Repo' / 'Add to Campaign' *)
repo_search(input, add, resp, now, campaign) ==
    IF input = <<>>
    THEN [fetched |-> NotCalled] @@ Step(ShownError(Message("EmptyInput")), campaign, FALSE)
    ELSE
    LET owner_repo == split(input) IN
    IF Len(owner_repo) # 2
    THEN [fetched |-> NotCalled] @@ Step(ShownError(Message("InputFormatError")), campaign, FALSE)
    ELSE
    LET owner == owner_repo[1]
        repo == owner_repo[2]
        got == get_repo_details_and_issues(owner, repo, resp)
    IN
    [fetched |-> got] @@
    (IF got.raised THEN Step(Unhandled(got.exc), campaign, FALSE)
     ELSE IF ~got.error.isnull THEN Step(ShownError(got.error), campaign, FALSE)
     ELSE IF has_repository(got.repo_info)
     THEN show_repository(got.repo_info.data.repository, owner, repo, add, now, campaign)
     ELSE Step(ShownError(Message("NotFoundOrMalformed")), campaign, FALSE))

----------------------------------------------------------------------------
(* Developer Search tab (tab2) *)

get_developer_details(username, dev_resp) ==
    IF dev_resp.status_code # HttpOk
    THEN Returned(Null, TransportError(dev_resp.status_code))
    ELSE Returned(dev_resp.body, Null)

(* lines 277-284: one repository fetch per listed repository; the fetch  *)
(* responses are given in the order of the list                           *)
RECURSIVE total_commits(_, _, _, _)
total_commits(dev_info, inner, now, total_commits_last_60_days) ==
    IF dev_info = <<>> THEN [raised |-> FALSE, total |-> total_commits_last_60_days]
    ELSE LET repo == Head(dev_info)
             got == get_repo_details_and_issues(repo.owner.login, repo.name, Head(inner))
         IN  IF got.raised THEN Raised(got.exc)
             ELSE IF got.repo_info.isnull
             THEN total_commits(Tail(dev_info), Tail(inner), now, total_commits_last_60_days)
             ELSE IF got.repo_info.data.isnull THEN Raised("TypeError")
             ELSE IF got.repo_info.data.repository.isnull THEN Raised("TypeError")
             ELSE IF got.repo_info.data.repository.defaultBranchRef.isnull
             THEN Raised("TypeError")
             ELSE total_commits(Tail(dev_info), Tail(inner), now,
                      total_commits_last_60_days
                      + count_commits_last_60_days(
                            got.repo_info.data.repository.defaultBranchRef.target.history.edges,
                            now))

(* lines 263-291 *)
developer_search(dev_input, dev_resp, inner, now) ==
    IF dev_input = <<>> THEN ShownError(Message("EmptyInput"))
    ELSE
    LET got == get_developer_details(dev_input, dev_resp) IN
    IF ~got.error.isnull THEN ShownError(got.error)
    ELSE IF got.repo_info # <<>>
    THEN LET sum == total_commits(got.repo_info, inner, now, 0) IN
         IF sum.raised THEN Unhandled(sum.exc)
         ELSE Shown([repositories |-> got.repo_info, total_commits_last_60_days |-> sum.total])
    ELSE ShownError(Message("NotFoundOrMalformed"))

----------------------------------------------------------------------------
(* Inputs: what the user types and what the hosting API answers *)

Ts(d, t) == [date |-> d, time |-> t]

(* reading of datetime.now(): day 200, 12:00:00 *)
ClockReadings == { 200 * SecondsPerDay + 12 * SecondsPerHour }

RepoInputs ==
    { <<>>,
      <<"octocat">>,
      <<"octocat", "/", "hello">>,
      <<"psf", "/", "requests">>,
      <<"a", "/", "b", "/", "c">> }

DevInputs == { <<>>, <<"octocat">> }

ForbiddenCollaborators == [has_type |-> TRUE, type |-> "FORBIDDEN", path |-> "collaborators"]
ForbiddenRepository == [has_type |-> TRUE, type |-> "FORBIDDEN", path |-> "repository"]
NotFound == [has_type |-> TRUE, type |-> "NOT_FOUND", path |-> "repository"]
Untyped == [has_type |-> FALSE, path |-> "query"]

ErrorKinds == {ForbiddenCollaborators, ForbiddenRepository, NotFound, Untyped}

Alice == [login |-> <<"alice">>, url |-> <<"https://github.com/alice">>]

(* 30 hours to close one issue, one recent commit, one collaborator *)
ActiveRepository ==
    [isnull |-> FALSE,
     stargazerCount |-> 5,
     forkCount |-> 2,
     languages |-> [edges |-> << [size |-> 10, node |-> [name |-> <<"Python">>]],
                                 [size |-> 3, node |-> [name |-> <<"Hack">>]] >>],
     issues |-> [edges |-> << [node |-> [createdAt |-> Ts(190, 0),
                                         closedAt |-> Ts(191, 6 * SecondsPerHour)]] >>],
     defaultBranchRef |-> [isnull |-> FALSE,
                           target |-> [history |-> [edges |->
                               << [node |-> [committedDate |-> Ts(199, 10 * SecondsPerHour)]],
                                  [node |-> [committedDate |-> Ts(100, 0)]] >>]]],
     collaborators |-> [isnull |-> FALSE, edges |-> << [node |-> Alice] >>]]

(* nothing in it yet, and the collaborators field refused (null) *)
QuietRepository ==
    [isnull |-> FALSE,
     stargazerCount |-> 0,
     forkCount |-> 0,
     languages |-> [edges |-> <<>>],
     issues |-> [edges |-> <<>>],
     defaultBranchRef |-> [isnull |-> FALSE, target |-> [history |-> [edges |-> <<>>]]],
     collaborators |-> Null]

(* an empty repository: no default branch *)
EmptyRepository == [QuietRepository EXCEPT !.defaultBranchRef = Null,
                                           !.collaborators = [isnull |-> FALSE, edges |-> <<>>]]

DataShapes ==
    { Null,
      [isnull |-> FALSE, repository |-> Null],
      [isnull |-> FALSE, repository |-> ActiveRepository],
      [isnull |-> FALSE, repository |-> QuietRepository],
      [isnull |-> FALSE, repository |-> EmptyRepository] }

Body(has, errs, data) == [isnull |-> FALSE, has_errors |-> has, errors |-> errs, data |-> data]

NoResponse == [status_code |-> 0]
FailedResponse(code) == [status_code |-> code, body |-> Null]

(* the API nulls the collaborators field only together with an error   *)
(* entry on that field                                                  *)
Consistent(errs, d) ==
    (~d.isnull /\ ~d.repository.isnull /\ d.repository.collaborators.isnull)
        => \E i \in 1..Len(errs) : errs[i] = ForbiddenCollaborators

(* every answer the fetcher is tried on *)
FetchResponses ==
    { FailedResponse(code) : code \in {404, 500} }
    \cup { [status_code |-> HttpOk, body |-> Body(FALSE, <<>>, d)] :
             d \in {x \in DataShapes : Consistent(<<>>, x)} }
    \cup { [status_code |-> HttpOk, body |-> Body(TRUE, ed[1], ed[2])] :
             ed \in {x \in BoundedSeq(ErrorKinds, MaxErrors) \X DataShapes :
                        Consistent(x[1], x[2])} }

(* the answers the handlers are run on: one of each way a search can end *)
AppErrorLists ==
    { <<ForbiddenCollaborators>>, <<NotFound>>, <<ForbiddenCollaborators, NotFound>> }

AppResponses ==
    { FailedResponse(404) }
    \cup { [status_code |-> HttpOk, body |-> Body(FALSE, <<>>, d)] :
             d \in {x \in DataShapes : Consistent(<<>>, x)} }
    \cup { [status_code |-> HttpOk, body |-> Body(TRUE, ed[1], ed[2])] :
             ed \in {x \in AppErrorLists \X (DataShapes \ {Null}) : Consistent(x[1], x[2])} }
    \cup { [status_code |-> HttpOk,
            body |-> Body(TRUE, <<Untyped>>, [isnull |-> FALSE, repository |-> Null])] }

ListedRepo(n) == [name |-> n, owner |-> [login |-> <<"octocat">>],
                  html_url |-> <<"https://github.com/octocat/">> \o n]

Active200 == [status_code |-> HttpOk,
              body |-> Body(FALSE, <<>>, [isnull |-> FALSE, repository |-> ActiveRepository])]

(* developer listings with the answers to the per-repository fetches *)
DevListings ==
    { [status_code |-> 404, body |-> <<>>, inner |-> <<>>],
      [status_code |-> HttpOk, body |-> <<>>, inner |-> <<>>] }
    \cup { [status_code |-> HttpOk, body |-> <<ListedRepo(<<"hello">>)>>, inner |-> <<r>>] :
             r \in AppResponses }
    \cup { [status_code |-> HttpOk,
            body |-> <<ListedRepo(<<"hello">>), ListedRepo(<<"world">>)>>,
            inner |-> <<r, Active200>>] : r \in {Active200, FailedResponse(404)} }

----------------------------------------------------------------------------
(* The dashboard as a state machine *)

(* campaign_repos.clear() *)
clear_campaign(campaign) == <<>>

(* a file left by an earlier run holds what that run saved *)
EarlierCampaigns ==
    { <<>>,
      repo_search(<<"octocat", "/", "hello">>, TRUE, Active200,
                  200 * SecondsPerDay, <<>>).campaign }

InitialFiles == {Absent} \cup { save_campaign(c) : c \in EarlierCampaigns }

MetricsIdle ==
    /\ m_op = "none"
    /\ m_items = <<>>
    /\ m_other = <<>>
    /\ m_now = 0
    /\ m_result = Rat(0, 1)
    /\ m_result_other = Rat(0, 1)

(* lines 156-160: the session starts from the persisted file *)
Init ==
    /\ campaign_file \in InitialFiles
    /\ campaign_repos = load_campaign(campaign_file)
    /\ last_action = "start"
    /\ repo_input = <<>>
    /\ add_to_campaign = FALSE
    /\ response = NoResponse
    /\ fetched = NotCalled
    /\ outcome = NothingShown
    /\ MetricsIdle

(* the fetch is reached only with a non-empty input of two parts (lines 171-175) *)
reaches_fetch(input) == input # <<>> /\ Len(split(input)) = 2

(* 'Search Repo' or 'Add to Campaign' pressed *)
RepoSearch ==
    \E input \in RepoInputs, add \in BOOLEAN, now \in ClockReadings :
    \E resp \in IF reaches_fetch(input) THEN AppResponses ELSE {NoResponse} :
        /\ add => Len(campaign_repos) < MaxCampaign
        /\ LET r == repo_search(input, add, resp, now, campaign_repos) IN
           /\ campaign_repos' = r.campaign
           /\ campaign_file' = IF r.saved THEN save_campaign(r.campaign) ELSE campaign_file
           /\ fetched' = r.fetched
           /\ outcome' = r.outcome
        /\ response' = resp
        /\ last_action' = IF add THEN "add" ELSE "search"
        /\ repo_input' = input
        /\ add_to_campaign' = add
        /\ UNCHANGED metric_vars

NoListing == [status_code |-> 0, body |-> <<>>, inner |-> <<>>]

(* 'Search Developer' pressed *)
DeveloperSearch ==
    \E dev_input \in DevInputs, now \in ClockReadings :
    \E listing \in IF dev_input # <<>> THEN DevListings ELSE {NoListing} :
        /\ outcome' = developer_search(dev_input,
                          [status_code |-> listing.status_code, body |-> listing.body],
                          listing.inner, now)
        /\ last_action' = "developer"
        /\ repo_input' = dev_input
        /\ add_to_campaign' = FALSE
        /\ response' = NoResponse
        /\ fetched' = NotCalled
        /\ UNCHANGED <<campaign_repos, campaign_file>>
        /\ UNCHANGED metric_vars

(* lines 364-367: 'Clear Campaign' pressed *)
ClearCampaign ==
    /\ campaign_repos' = clear_campaign(campaign_repos)
    /\ campaign_file' = save_campaign(campaign_repos')
    /\ last_action' = "clear"
    /\ repo_input' = <<>>
    /\ add_to_campaign' = FALSE
    /\ response' = NoResponse
    /\ fetched' = NotCalled
    /\ outcome' = NothingShown
    /\ UNCHANGED metric_vars

(* lines 157-158: a new session reads the file again *)
NewSession ==
    /\ campaign_repos' = load_campaign(campaign_file)
    /\ last_action' = "start"
    /\ repo_input' = <<>>
    /\ add_to_campaign' = FALSE
    /\ response' = NoResponse
    /\ fetched' = NotCalled
    /\ outcome' = NothingShown
    /\ UNCHANGED campaign_file
    /\ UNCHANGED metric_vars

Next == RepoSearch \/ DeveloperSearch \/ ClearCampaign \/ NewSession

Spec == Init /\ [][Next]_vars

----------------------------------------------------------------------------
(* The fetcher alone, on every answer *)

InitFetch ==
    /\ campaign_file = Absent
    /\ campaign_repos = load_campaign(campaign_file)
    /\ last_action = "start"
    /\ repo_input = <<>>
    /\ add_to_campaign = FALSE
    /\ response = NoResponse
    /\ fetched = NotCalled
    /\ outcome = NothingShown
    /\ MetricsIdle

FetchRepository ==
    \E input \in {i \in RepoInputs : Len(split(i)) = 2}, resp \in FetchResponses :
        /\ fetched' = get_repo_details_and_issues(split(input)[1], split(input)[2], resp)
        /\ response' = resp
        /\ repo_input' = input
        /\ last_action' = "fetch"
        /\ UNCHANGED <<campaign_repos, campaign_file, add_to_campaign, outcome>>
        /\ UNCHANGED metric_vars

SpecFetch == InitFetch /\ [][FetchRepository]_vars

----------------------------------------------------------------------------
(* The metric functions alone *)

(* an hour to close, closed on day 140 at 12:00:00 *)
QuickIssue == [createdAt |-> Ts(140, 11 * SecondsPerHour), closedAt |-> Ts(140, 12 * SecondsPerHour)]

(* ninety hours to close, closed one second earlier *)
SlowIssue == [createdAt |-> Ts(136, 18 * SecondsPerHour - 1),
              closedAt |-> Ts(140, 12 * SecondsPerHour - 1)]

IssueValues == {QuickIssue, SlowIssue}

CommitValues == { [node |-> [committedDate |-> i.closedAt]] : i \in IssueValues }

(* readings of datetime.now() around day 200, 12:00:00 *)
MetricClock == { 200 * SecondsPerDay + 12 * SecondsPerHour + d : d \in {-1, 0, 1} }

AverageResolution ==
    /\ m_op = "none"
    /\ \E issues \in BoundedSeq(IssueValues, MaxIssues), tail \in BoundedSeq(IssueValues, MaxTail) :
        /\ m_items' = issues
        /\ m_other' = SubSeq(issues, 1, Len(issues) - MaxTail) \o tail
        /\ m_result' = calculate_average_resolution_time(m_items')
        /\ m_result_other' = calculate_average_resolution_time(m_other')
    /\ m_op' = "average"
    /\ UNCHANGED m_now
    /\ UNCHANGED app_vars

CountIssues ==
    /\ m_op = "none"
    /\ \E issues \in BoundedSeq(IssueValues, MaxIssues), now \in MetricClock :
        /\ m_items' = issues
        /\ m_now' = now
        /\ m_result' = count_issues_resolved_last_60_days(issues, now)
    /\ m_op' = "issues"
    /\ UNCHANGED <<m_other, m_result_other>>
    /\ UNCHANGED app_vars

CountCommits ==
    /\ m_op = "none"
    /\ \E commits \in BoundedSeq(CommitValues, MaxIssues), now \in MetricClock :
        /\ m_items' = commits
        /\ m_now' = now
        /\ m_result' = count_commits_last_60_days(commits, now)
    /\ m_op' = "commits"
    /\ UNCHANGED <<m_other, m_result_other>>
    /\ UNCHANGED app_vars

NextMetrics == AverageResolution \/ CountIssues \/ CountCommits

SpecMetrics == InitFetch /\ [][NextMetrics]_vars

----------------------------------------------------------------------------
(* Properties *)

AddSucceeded == last_action = "add" /\ outcome.kind = "result"

(* C1: whenever a mutating operation (a successful add-to-campaign, or a  *)
(* clear) has completed, the campaign file exists and holds exactly the   *)
(* in-memory campaign sequence: same entries, same order.                 *)
C1_MemoryMatchesFile ==
    (AddSucceeded \/ last_action = "clear") =>
        /\ campaign_file.exists
        /\ Len(campaign_file.content) = Len(campaign_repos)
        /\ load_campaign(campaign_file) = campaign_repos
        /\ campaign_file.content = json_dump(campaign_repos)

C1_Witness ==
    /\ AddSucceeded
    /\ Len(campaign_repos) = 2
    /\ campaign_repos[1] # campaign_repos[2]
    /\ campaign_file.exists
    /\ Len(campaign_file.content) = 2

IsForbiddenCollaborators(e) ==
    e.has_type /\ e.type = "FORBIDDEN" /\ e.path = "collaborators"

FetchedOk200 ==
    /\ last_action = "fetch"
    /\ response.status_code = HttpOk

(* C2: a status-200 response whose error list holds at least one error    *)
(* that is not a forbidden-type error on the collaborators field makes    *)
(* fetchRepository fail with ApiError carrying that error list.           *)
C2_OtherErrorsFail ==
    (/\ FetchedOk200
     /\ response.body.has_errors
     /\ \E i \in 1..Len(response.body.errors) :
            ~IsForbiddenCollaborators(response.body.errors[i]))
    => (/\ ~fetched.raised
        /\ ~fetched.error.isnull
        /\ fetched.error.kind = "ApiError"
        /\ fetched.error.errors = response.body.errors)

OnlyForbiddenCollaborators ==
    /\ FetchedOk200
    /\ response.body.has_errors
    /\ response.body.errors # <<>>
    /\ \A i \in 1..Len(response.body.errors) :
            IsForbiddenCollaborators(response.body.errors[i])

HasRepositoryData ==
    /\ ~response.body.data.isnull
    /\ ~response.body.data.repository.isnull

SameRepository(e, owner, repo) == e.owner = PyStr(owner) /\ e.repo_name = PyStr(repo)

(* C4: every successful add-to-campaign appends exactly one entry at the  *)
(* end of the campaign, carrying the owner and name typed, whether or not *)
(* the campaign already holds that owner/name; earlier entries keep their *)
(* positions.                                                             *)
C4_AppendsOneAtEnd ==
    [][ (last_action' = "add" /\ outcome'.kind = "result") =>
            /\ Len(campaign_repos') = Len(campaign_repos) + 1
            /\ SubSeq(campaign_repos', 1, Len(campaign_repos)) = campaign_repos
            /\ SameRepository(campaign_repos'[Len(campaign_repos')],
                              split(repo_input')[1], split(repo_input')[2]) ]_vars

C4_Witness ==
    /\ AddSucceeded
    /\ Len(campaign_repos) = 2
    /\ SameRepository(campaign_repos[1], split(repo_input)[1], split(repo_input)[2])
    /\ SameRepository(campaign_repos[2], split(repo_input)[1], split(repo_input)[2])

AddFailed ==
    /\ last_action = "add"
    /\ \/ repo_input = <<>>
       \/ Len(split(repo_input)) # 2
       \/ response.status_code # HttpOk
       \/ fetched.raised
       \/ ~fetched.error.isnull
       \/ fetched.repo_info.data.isnull
       \/ fetched.repo_info.data.repository.isnull
       \/ outcome.kind # "result"

(* C5: an add-to-campaign that fails (empty input, not exactly one        *)
(* separator, a transport or API error, no repository data, or an         *)
(* exception on the way), a plain search and a developer search all leave *)
(* the in-memory campaign and the campaign file unchanged.                *)
C5_NoAppendWithoutSuccess ==
    [][ (AddFailed' \/ last_action' \in {"search", "developer"}) =>
            (campaign_repos' = campaign_repos /\ campaign_file' = campaign_file) ]_vars

C5_Witness ==
    /\ AddFailed
    /\ outcome.kind = "error"
    /\ ~outcome.error.isnull
    /\ outcome.error.kind = "ApiError"
    /\ Len(campaign_repos) = 1
    /\ campaign_file.exists

(* C6: an entry at index i stays at index i, unchanged, across every step *)
(* that is not a clear; the campaign never gets shorter except by a       *)
(* clear, which empties it.                                               *)
C6_EntriesStayUntilClear ==
    [][ /\ last_action' # "clear" =>
              /\ Len(campaign_repos') >= Len(campaign_repos)
              /\ \A i \in 1..Len(campaign_repos) : campaign_repos'[i] = campaign_repos[i]
        /\ last_action' = "clear" => campaign_repos' = <<>> ]_vars

C6_Witness ==
    /\ AddSucceeded
    /\ Len(campaign_repos) = 2
    /\ campaign_repos[1].repo_name # campaign_repos[2].repo_name

SaveLoad(file) == save_campaign(load_campaign(file))

(* C7: loading what was saved gives back the saved sequence (entries and  *)
(* order), loading with no file gives the empty sequence, and             *)
(* save(load()) done twice leaves the file as done once.                  *)
C7_RoundTrip ==
    /\ load_campaign(save_campaign(campaign_repos)) = campaign_repos
    /\ campaign_file.exists => load_campaign(campaign_file) = campaign_repos
    /\ ~campaign_file.exists => load_campaign(campaign_file) = <<>> /\ campaign_repos = <<>>
    /\ SaveLoad(SaveLoad(campaign_file)) = SaveLoad(campaign_file)
    /\ campaign_file.exists => SaveLoad(campaign_file) = campaign_file

C7_Witness ==
    /\ last_action = "start"
    /\ campaign_file.exists
    /\ Len(campaign_repos) = 2
    /\ campaign_repos[1].latest_commit_date = PyNone
    /\ campaign_repos[2].latest_commit_date # PyNone
    /\ campaign_repos[2].stars = PyInt(5)

(* C8: a repository search always ends with a displayed result or a       *)
(* displayed error, never with an unhandled exception.                    *)
C8_SearchNeverRaises ==
    last_action \in {"search", "add"} => outcome.kind \in {"result", "error"}

RECURSIVE SumOfResolutions(_, _)
SumOfResolutions(items, n) ==
    IF n = 0 THEN 0
    ELSE SumOfResolutions(items, n - 1)
         + (items[n].closedAt.date - items[n].createdAt.date) * 86400
         + (items[n].closedAt.time - items[n].createdAt.time)

MeanHoursOfFirstTen(items) ==
    LET n == IF Len(items) < 10 THEN Len(items) ELSE 10 IN
    IF n = 0 THEN Rat(0, 1) ELSE Rat(SumOfResolutions(items, n), n * 3600)

AgreeOnFirstTen(a, b) ==
    \A i \in 1..10 :
        /\ (i <= Len(a)) <=> (i <= Len(b))
        /\ (i <= Len(a)) => a[i] = b[i]

TimeOfItem(item) ==
    IF m_op = "issues"
    THEN item.closedAt.date * 86400 + item.closedAt.time
    ELSE item.node.committedDate.date * 86400 + item.node.committedDate.time

WindowStart == m_now - 60 * 86400

(* C10: the two window counts are the number of items of the whole list   *)
(* whose timestamp is at or after the reference time minus 60 days: an    *)
(* item exactly at that instant counts, one a second earlier does not,    *)
(* and the count lies between 0 and the length of the list.               *)
C10_CountsWholeListInclusive ==
    m_op \in {"issues", "commits"} =>
        /\ m_result = Cardinality({i \in 1..Len(m_items) : TimeOfItem(m_items[i]) >= WindowStart})
        /\ m_result >= 0
        /\ m_result <= Len(m_items)
        /\ (\A i \in 1..Len(m_items) : TimeOfItem(m_items[i]) = WindowStart)
               => m_result = Len(m_items)
        /\ (\A i \in 1..Len(m_items) : TimeOfItem(m_items[i]) = WindowStart - 1)
               => m_result = 0

C10_Witness ==
    /\ m_op = "commits"
    /\ Len(m_items) = 12
    /\ TimeOfItem(m_items[12]) = WindowStart
    /\ TimeOfItem(m_items[11]) = WindowStart - 1
    /\ TimeOfItem(m_items[1]) = WindowStart
    /\ m_result = 7

----------------------------------------------------------------------------
(* One repository search on issue lists around the 24-hour threshold *)

IssueTaking(hours) ==
    [createdAt |-> Ts(190, 0),
     closedAt |-> Ts(190 + hours \div 24, (hours % 24) * SecondsPerHour)]

FormatIssueValues == { IssueTaking(h) : h \in {10, 24, 30} }

RepositoryWithIssues(issues) ==
    [ActiveRepository EXCEPT !.issues = [edges |-> [i \in 1..Len(issues) |-> [node |-> issues[i]]]]]

FormatSearch ==
    /\ last_action = "start"
    /\ \E issues \in BoundedSeq(FormatIssueValues, MaxFormatIssues), add \in BOOLEAN,
          now \in ClockReadings :
        LET input == <<"octocat", "/", "hello">>
            resp == [status_code |-> HttpOk,
                     body |-> Body(FALSE, <<>>, [isnull |-> FALSE,
                                                 repository |-> RepositoryWithIssues(issues)])]
            r == repo_search(input, add, resp, now, campaign_repos)
        IN  /\ campaign_repos' = r.campaign
            /\ campaign_file' = IF r.saved THEN save_campaign(r.campaign) ELSE campaign_file
            /\ fetched' = r.fetched
            /\ outcome' = r.outcome
            /\ response' = resp
            /\ last_action' = IF add THEN "add" ELSE "search"
            /\ repo_input' = input
            /\ add_to_campaign' = add
    /\ UNCHANGED metric_vars

SpecFormat == InitFetch /\ [][FormatSearch]_vars

SearchShown == last_action \in {"search", "add"} /\ outcome.kind = "result"

ReceivedIssues == nodes(response.body.data.repository.issues.edges)

ConsideredCount == IF Len(ReceivedIssues) < 10 THEN Len(ReceivedIssues) ELSE 10

ConsideredSeconds == SumOfResolutions(ReceivedIssues, ConsideredCount)

PresentedAverage == outcome.shown.average_time_formatted

PresentedHundredths ==
    PresentedAverage[1] * 100 + PresentedAverage[3] * 10 + PresentedAverage[4]

Distance(a, b) == IF a < b THEN b - a ELSE a - b

(* C11: the average is presented in days (hours/24, two decimals) exactly *)
(* when it is strictly above 24 hours and in hours otherwise; exactly 24  *)
(* hours reads "24.00 hours", no issues reads "0.00 hours"; and the entry *)
(* added to the campaign stores the very string that was presented.       *)
C11_DaysOnlyAbove24Hours ==
    SearchShown =>
        /\ (PresentedAverage[5] = " days") <=> (ConsideredSeconds > 24 * 3600 * ConsideredCount)
        /\ PresentedAverage[5] \in {" days", " hours"}
        /\ PresentedAverage[5] = " days" =>
              2 * Distance(PresentedHundredths * 86400 * ConsideredCount, 100 * ConsideredSeconds)
                 <= 86400 * ConsideredCount
        /\ (PresentedAverage[5] = " hours" /\ ConsideredCount > 0) =>
              2 * Distance(PresentedHundredths * 3600 * ConsideredCount, 100 * ConsideredSeconds)
                 <= 3600 * ConsideredCount
        /\ (ConsideredCount > 0 /\ ConsideredSeconds = 24 * 3600 * ConsideredCount) =>
              PresentedAverage = <<24, ".", 0, 0, " hours">>
        /\ ConsideredCount = 0 => PresentedAverage = <<0, ".", 0, 0, " hours">>
        /\ last_action = "add" =>
              campaign_repos[Len(campaign_repos)].average_issue_resolution_time
                  = PyStr(PresentedAverage)

C11_Witness ==
    /\ SearchShown
    /\ last_action = "add"
    /\ Len(ReceivedIssues) = 3
    /\ ConsideredSeconds = 24 * 3600 * 3
    /\ PresentedAverage = <<24, ".", 0, 0, " hours">>
    /\ Len(campaign_repos) = 1
    /\ campaign_repos[1].average_issue_resolution_time = PyStr(<<24, ".", 0, 0, " hours">>)

====
